---- MODULE Spec2Model ----
(***************************************************************************)
(* Model of lucet-spectest/src/script.rs: the ScriptEnv registry of        *)
(* (Option<String>, Instance) pairs and its four directives (instantiate,  *)
(* run, register, delete_last) plus the read-only lookup instance_named.   *)
(*                                                                         *)
(* instantiate is modelled statement by statement (pc is the position in   *)
(* the function body), so that the scoped temporary directory and the      *)
(* stage order are visible in intermediate states.  The directives are     *)
(* sequential: a new directive starts only when pc = "idle".               *)
(***************************************************************************)
EXTENDS Integers, Sequences, FiniteSets, TLC

VARIABLES
    instances,        \* self.instances: Vec<(Option<String>, Instance)>
    pc,               \* position: "idle", a statement of instantiate, or "panicked"
    disk,             \* files of the scoped temporary directory that exist on disk
    nextId,           \* identity given to the next Instance::new
    overflow_checks,  \* build profile: is usize arithmetic overflow-checked
    pre,              \* self.instances when the directive `last` started
    last,             \* the directive started last: its arguments, progress and result
    prev              \* the directive before `last`

vars == <<instances, pc, disk, nextId, overflow_checks, pre, last, prev>>

----------------------------------------------------------------------------
(* Bounds of the model *)

MaxInstances == 2     \* instantiate is not started on a registry this long
MaxCreated == 3       \* instantiate is not started once this many instances were created

Names == {"a", "b"}
Fields == {"f"}

----------------------------------------------------------------------------
(* Option<String> *)

None == <<>>
Some(n) == <<n>>
OptNames == {None} \cup {Some(n) : n \in Names}

(* LucetcErrorKind, as far as script.rs distinguishes it, and the absence of
   a failure. A failure::Error (codegen, object write) may wrap any of them. *)
LucetcErrorKinds == {"Validation", "Unsupported", "Other"}
NoCause == "-"

----------------------------------------------------------------------------
(* ScriptError *)

ErrorKinds ==
    {"DeserializeError", "ValidationError", "ProgramError", "CompileError",
     "CodegenError", "LoadError", "InstantiateError", "RuntimeError",
     "MalformedScript", "IoError"}

Ok == [kind |-> "Ok", ctx |-> NoCause]
Err(kind, ctx) == [kind |-> kind, ctx |-> ctx]
Panic(msg) == [kind |-> "panic", ctx |-> msg]
Running == [kind |-> "running", ctx |-> NoCause]

(* Faulty variant of unsupported: the cause of the error is not inspected *)
unsupported_any_cause(e) == e.kind \in {"ProgramError", "CompileError"}

(* Faulty variant of unsupported: the CompileError arm is missing *)
unsupported_program_only(e) ==
    IF e.kind = "ProgramError" THEN e.ctx = "Unsupported" ELSE FALSE

(* ScriptError::unsupported, lines 41-50 *)
unsupported(e) ==
    IF e.kind \in {"ProgramError", "CompileError"}
    THEN e.ctx = "Unsupported"
    ELSE FALSE

(* Faulty variant of program_error: the Validation arm is missing *)
program_error_unsplit(ctx) == Err("ProgramError", ctx)

(* program_error, lines 63-68; ctx is e.get_context() *)
program_error(ctx) ==
    IF ctx = "Validation"
    THEN Err("ValidationError", ctx)
    ELSE Err("ProgramError", ctx)

----------------------------------------------------------------------------
(* usize: 64 bits, kept as little-endian limbs of 16 bits *)

UsizeBits == 64
LimbBase == 2^16
NumLimbs == UsizeBits \div 16
Limbs == 1..NumLimbs

ToUsize(n) == [i \in Limbs |-> IF i = 1 THEN n ELSE 0]

UsizeIsZero(u) == \A i \in Limbs : u[i] = 0

RECURSIVE BorrowFrom(_, _)
BorrowFrom(u, i) ==
    IF i > NumLimbs THEN u
    ELSE IF u[i] > 0 THEN [u EXCEPT ![i] = @ - 1]
    ELSE BorrowFrom([u EXCEPT ![i] = LimbBase - 1], i + 1)

(* u - 1 modulo 2^64 *)
wrapping_sub1(u) == BorrowFrom(u, 1)

RECURSIVE LessFrom(_, _, _)
LessFrom(a, b, i) ==
    IF i = 0 THEN FALSE
    ELSE IF a[i] # b[i] THEN a[i] < b[i]
    ELSE LessFrom(a, b, i - 1)

UsizeLess(a, b) == LessFrom(a, b, NumLimbs)

----------------------------------------------------------------------------
(* Vec *)

Entry(name, inst) == [name |-> name, inst |-> inst]

(* Faulty variant of Push: the entry is inserted at the front *)
PushFront(v, e) == <<e>> \o v

(* Vec::push *)
Push(v, e) == Append(v, e)

(* Faulty variant of RemoveOutOfBounds: no bounds check *)
RemoveUnchecked(index, len) == FALSE

(* Vec::remove panics when index >= len *)
RemoveOutOfBounds(index, len) == ~UsizeLess(index, len)

(* Faulty variant of VecRemove: the first element is removed *)
VecRemoveFirst(v, index) == [j \in 1..(Len(v) - 1) |-> v[j + 1]]

(* Vec::remove(index), index zero-based: the later elements shift left *)
VecRemove(v, index) ==
    [j \in 1..(Len(v) - 1) |-> IF j <= index THEN v[j] ELSE v[j + 1]]

(* iter().find(|(iname, _)| *iname == *name): position of the first match, 0 if none *)
RECURSIVE FindFrom(_, _, _)
FindFrom(v, name, i) ==
    IF i > Len(v) THEN 0
    ELSE IF v[i].name = name THEN i
    ELSE FindFrom(v, name, i + 1)

(* Faulty variant of Find: the last match, as rev().find would give *)
FindLastMatch(v, name) ==
    IF \E i \in 1..Len(v) : v[i].name = name
    THEN CHOOSE i \in 1..Len(v) :
            /\ v[i].name = name
            /\ \A j \in (i + 1)..Len(v) : v[j].name # name
    ELSE 0

Find(v, name) == FindFrom(v, name, 1)

(* Faulty variant of LastPos: first() instead of last() *)
FirstPos(v) == IF Len(v) = 0 THEN 0 ELSE 1

(* last() / last_mut(): position of the last element, 0 if none *)
LastPos(v) == Len(v)

Found(pos) == [ok |-> TRUE, pos |-> pos, err |-> Ok]
NotFound(err) == [ok |-> FALSE, pos |-> 0, err |-> err]

NoDefinedInstances == Err("MalformedScript", "no defined instances")
(* Faulty variant of NoInstanceNamed: the wrong error kind *)
NoInstanceNamedAsRuntime(n) == Err("RuntimeError", "no instance named " \o n)

NoInstanceNamed(n) == Err("MalformedScript", "no instance named " \o n)

(* Faulty variant of instance_named_mut: with no name, the last entry that
   has no name is taken instead of the last entry *)
instance_named_mut_last_unnamed(v, name) ==
    IF name = None
    THEN IF \E i \in 1..Len(v) : v[i].name = None
         THEN Found(CHOOSE i \in 1..Len(v) :
                       /\ v[i].name = None
                       /\ \A j \in (i + 1)..Len(v) : v[j].name # None)
         ELSE IF LastPos(v) = 0 THEN NotFound(NoDefinedInstances)
              ELSE Found(LastPos(v))
    ELSE IF Find(v, name) = 0 THEN NotFound(NoInstanceNamed(name[1]))
         ELSE Found(Find(v, name))

(* Faulty variant of instance_named_mut: an entry without a name matches
   every requested name *)
instance_named_mut_wildcard(v, name) ==
    IF name = None
    THEN IF LastPos(v) = 0 THEN NotFound(NoDefinedInstances) ELSE Found(LastPos(v))
    ELSE IF \E i \in 1..Len(v) : v[i].name \in {name, None}
         THEN Found(CHOOSE i \in 1..Len(v) :
                       /\ v[i].name \in {name, None}
                       /\ \A j \in 1..(i - 1) : v[j].name \notin {name, None})
         ELSE NotFound(NoInstanceNamed(name[1]))

(* instance_named_mut, lines 138-154 *)
instance_named_mut(v, name) ==
    IF name = None
    THEN IF LastPos(v) = 0 THEN NotFound(NoDefinedInstances) ELSE Found(LastPos(v))
    ELSE IF Find(v, name) = 0 THEN NotFound(NoInstanceNamed(name[1]))
         ELSE Found(Find(v, name))

(* Faulty variant of instance_named: with a name, the last match is taken *)
instance_named_last_match(v, name) ==
    IF name = None
    THEN IF LastPos(v) = 0 THEN NotFound(NoDefinedInstances) ELSE Found(LastPos(v))
    ELSE IF FindLastMatch(v, name) = 0 THEN NotFound(NoInstanceNamed(name[1]))
         ELSE Found(FindLastMatch(v, name))

(* instance_named, lines 156-171 *)
instance_named(v, name) ==
    IF name = None
    THEN IF LastPos(v) = 0 THEN NotFound(NoDefinedInstances) ELSE Found(LastPos(v))
    ELSE IF Find(v, name) = 0 THEN NotFound(NoInstanceNamed(name[1]))
         ELSE Found(Find(v, name))

(* Faulty variant of SetName: the old name is kept when the entry has one *)
SetNameIfUnnamed(v, pos, as_name) ==
    IF v[pos].name = None THEN [v EXCEPT ![pos].name = Some(as_name)] ELSE v

(* Faulty variant of SetName: every entry that carries the old name is renamed *)
SetNameOfAll(v, pos, as_name) ==
    [i \in 1..Len(v) |->
        IF v[i].name = v[pos].name THEN [v[i] EXCEPT !.name = Some(as_name)]
        ELSE v[i]]

(* Faulty variant of SetName: the last entry is renamed, not the resolved one *)
SetNameOfLast(v, pos, as_name) == [v EXCEPT ![Len(v)].name = Some(as_name)]

(* *oldname = Some(as_name.to_owned()), line 186, on the entry at pos *)
SetName(v, pos, as_name) == [v EXCEPT ![pos].name = Some(as_name)]

(* Faulty variant of TempDirDrop: the directory is leaked *)
TempDirLeak(d) == d

(* Drop of tempfile::TempDir: the directory and everything in it is removed *)
TempDirDrop(d) == {}

----------------------------------------------------------------------------
(* The record of a completed directive *)

Blank(op, name) ==
    [op |-> op, name |-> name, alias |-> "", res |-> Ok, stage |-> "",
     cause |-> NoCause, pos |-> 0, target |-> 0, calls |-> <<>>, new |-> 0,
     stages |-> <<>>, flag |-> FALSE]

Brief(r) == [op |-> r.op, name |-> r.name, res |-> r.res.kind, new |-> r.new]

(* A directive that runs in one step returns to the harness *)
Complete(r) ==
    /\ pc' = "idle"
    /\ last' = r
    /\ prev' = Brief(last)
    /\ pre' = instances

(* A directive that runs in one step panics: it does not return to the harness *)
Abort(r) ==
    /\ pc' = "panicked"
    /\ last' = r
    /\ prev' = Brief(last)
    /\ pre' = instances

Init ==
    /\ instances = <<>>
    /\ pc = "idle"
    /\ disk = {}
    /\ nextId = 1
    /\ overflow_checks \in BOOLEAN
    /\ pre = <<>>
    /\ last = Blank("new", None)
    /\ prev = Brief(Blank("new", None))

----------------------------------------------------------------------------
(* The registry directives, each run to completion *)

(* instance_named(name), lines 156-171 *)
Resolve(name) ==
    /\ pc = "idle"
    /\ LET r == instance_named(instances, name) IN
       Complete([Blank("resolve", name) EXCEPT
                    !.res = r.err, !.pos = r.pos,
                    !.target = IF r.ok THEN instances[r.pos].inst ELSE 0])
    /\ UNCHANGED <<instances, disk, nextId, overflow_checks>>

(* Faulty variant of Invoke: the call is made again after the first one *)
InvokeTwice(inst) == <<inst, inst>>

(* inst.run(&field, &args), line 180: the invocations made on instances *)
Invoke(inst) == <<inst>>

(* run(name, field, args), lines 173-182; inst.run either returns a value or
   reports a sandbox fault *)
Run(name, field) ==
    /\ pc = "idle"
    /\ LET r == instance_named_mut(instances, name) IN
       IF ~r.ok
       THEN Complete([Blank("run", name) EXCEPT !.res = r.err])
       ELSE \E fault \in BOOLEAN :
              Complete([Blank("run", name) EXCEPT
                           !.res = IF fault THEN Err("RuntimeError", "fault") ELSE Ok,
                           !.cause = IF fault THEN "fault" ELSE NoCause,
                           !.pos = r.pos,
                           !.target = instances[r.pos].inst,
                           !.calls = Invoke(instances[r.pos].inst)])
    /\ UNCHANGED <<instances, disk, nextId, overflow_checks>>

(* register(name, as_name), lines 184-188 *)
Register(name, as_name) ==
    /\ pc = "idle"
    /\ LET r == instance_named_mut(instances, name) IN
       IF ~r.ok
       THEN /\ Complete([Blank("register", name) EXCEPT
                            !.alias = as_name, !.res = r.err])
            /\ UNCHANGED instances
       ELSE /\ instances' = SetName(instances, r.pos, as_name)
            /\ Complete([Blank("register", name) EXCEPT
                            !.alias = as_name, !.pos = r.pos,
                            !.target = instances[r.pos].inst])
    /\ UNCHANGED <<disk, nextId, overflow_checks>>

(* delete_last, lines 190-193 *)
DeleteLast ==
    /\ pc = "idle"
    /\ LET len == ToUsize(Len(instances)) IN
       IF overflow_checks /\ UsizeIsZero(len)
       THEN \* `len - 1` panics in an overflow-checked build
            /\ Abort([Blank("delete_last", None) EXCEPT
                         !.res = Panic("attempt to subtract with overflow")])
            /\ UNCHANGED instances
       ELSE LET last_index == wrapping_sub1(len) IN
            IF RemoveOutOfBounds(last_index, len)
            THEN /\ Abort([Blank("delete_last", None) EXCEPT
                              !.res = Panic("removal index out of bounds")])
                 /\ UNCHANGED instances
            ELSE /\ instances' = VecRemove(instances, last_index[1])
                 /\ Complete(Blank("delete_last", None))
    /\ UNCHANGED <<disk, nextId, overflow_checks>>

----------------------------------------------------------------------------
(* instantiate(module, name), lines 76-136, statement by statement *)

Stay == UNCHANGED <<instances, nextId, overflow_checks, pre, prev>>

(* the statement `stage` succeeded; control moves on to `next` *)
Advance(stage, next) ==
    /\ pc' = next
    /\ last' = [last EXCEPT !.stages = Append(@, stage)]
    /\ Stay

(* the statement `stage` failed with `cause`; instantiate returns Err(res) *)
Return(stage, cause, res) ==
    /\ pc' = "idle"
    /\ last' = [last EXCEPT !.res = res, !.stage = stage, !.cause = cause,
                            !.stages = Append(@, stage)]
    /\ Stay

(* the call, and line 81 *)
Instantiate(name) ==
    /\ pc = "idle"
    /\ Len(instances) < MaxInstances
    /\ nextId <= MaxCreated
    /\ pc' = "deserialize"
    /\ last' = [Blank("instantiate", name) EXCEPT !.res = Running]
    /\ prev' = Brief(last)
    /\ pre' = instances
    /\ UNCHANGED <<instances, disk, nextId, overflow_checks>>

(* line 83 *)
Deserialize ==
    /\ pc = "deserialize"
    /\ \/ Advance("deserialize", "program")
       \/ Return("deserialize", "parity_wasm", Err("DeserializeError", "parity_wasm"))
    /\ UNCHANGED disk

(* lines 85-86 *)
ProgramNew ==
    /\ pc = "program"
    /\ \/ Advance("program", "tempdir")
       \/ \E k \in LucetcErrorKinds : Return("program", k, program_error(k))
    /\ UNCHANGED disk

(* lines 88-90: `dir` comes into scope *)
TempDir ==
    /\ pc = "tempdir"
    /\ \/ Advance("tempdir", "compile") /\ disk' = {"codegen"}
       \/ Return("tempdir", "io", Err("IoError", "io")) /\ UNCHANGED disk

(* lines 93-98 *)
Compile ==
    /\ pc = "compile"
    /\ \/ Advance("compile", "codegen") /\ UNCHANGED disk
       \/ \E k \in LucetcErrorKinds :
            Return("compile", k, Err("CompileError", k)) /\ disk' = TempDirDrop(disk)

(* line 100 *)
Codegen ==
    /\ pc = "codegen"
    /\ \/ Advance("codegen", "write") /\ UNCHANGED disk
       \/ \E k \in LucetcErrorKinds :
            Return("codegen", k, Err("CodegenError", k)) /\ disk' = TempDirDrop(disk)

(* lines 102-104: a failed write may leave a partial a.o behind *)
ObjectWrite ==
    /\ pc = "write"
    /\ \/ Advance("write", "link") /\ disk' = disk \cup {"a.o"}
       \/ Return("write", "Other", Err("CodegenError", "Other"))
            /\ disk' = TempDirDrop(disk)

(* lines 107-119 *)
Link ==
    /\ pc = "link"
    /\ \/ Advance("link", "load") /\ disk' = disk \cup {"a.so"}
       \/ \* line 112: ld could not be launched
          Return("link", "io", Err("IoError", "io")) /\ disk' = TempDirDrop(disk)
       \/ \* lines 113-119: ld exited with a non-zero status
          Return("link", "ld", Err("CodegenError", "ld")) /\ disk' = TempDirDrop(disk)

(* lines 121-122 *)
Load ==
    /\ pc = "load"
    /\ \/ Advance("load", "region") /\ UNCHANGED disk
       \/ Return("load", "runtime", Err("LoadError", "runtime"))
            /\ disk' = TempDirDrop(disk)

(* lines 124-125: expect("valid region") panics when the region cannot be
   created; unwinding drops `dir` *)
RegionCreate ==
    /\ pc = "region"
    /\ \/ Advance("region", "new_instance") /\ UNCHANGED disk
       \/ /\ pc' = "panicked"
          /\ last' = [last EXCEPT !.res = Panic("valid region"), !.stage = "region",
                                  !.cause = "runtime",
                                  !.stages = Append(@, "region")]
          /\ disk' = TempDirDrop(disk)
          /\ Stay

(* lines 127-129 *)
NewInstance ==
    /\ pc = "new_instance"
    /\ \/ Advance("new_instance", "push") /\ UNCHANGED disk
       \/ Return("new_instance", "runtime", Err("InstantiateError", "runtime"))
            /\ disk' = TempDirDrop(disk)

(* lines 131-136: the entry is pushed, Ok(()) is returned and `dir` is dropped *)
PushInstance ==
    /\ pc = "push"
    /\ instances' = Push(instances, Entry(last.name, nextId))
    /\ nextId' = nextId + 1
    /\ disk' = TempDirDrop(disk)
    /\ pc' = "idle"
    /\ last' = [last EXCEPT !.res = Ok, !.new = nextId,
                            !.stages = Append(@, "push")]
    /\ UNCHANGED <<overflow_checks, pre, prev>>

----------------------------------------------------------------------------

Next ==
    \/ \E name \in OptNames : Instantiate(name)
    \/ Deserialize
    \/ ProgramNew
    \/ TempDir
    \/ Compile
    \/ Codegen
    \/ ObjectWrite
    \/ Link
    \/ Load
    \/ RegionCreate
    \/ NewInstance
    \/ PushInstance
    \/ \E name \in OptNames : Resolve(name)
    \/ \E name \in OptNames, field \in Fields : Run(name, field)
    \/ \E name \in OptNames, as_name \in Names : Register(name, as_name)
    \/ DeleteLast

Spec == Init /\ [][Next]_vars

----------------------------------------------------------------------------
(* ScriptError::unsupported applied to every value of ScriptError, with a
   registry the directives can have built *)

Contexts == LucetcErrorKinds \cup {"parity_wasm", "io", "ld", "runtime", "fault"}
ErrorValues == {Err(k, c) : k \in ErrorKinds, c \in Contexts}

Registries ==
    {<<>>,
     <<Entry(None, 1)>>,
     <<Entry(Some("a"), 1), Entry(None, 2)>>}

InitErr ==
    /\ instances \in Registries
    /\ pc = "idle"
    /\ disk = {}
    /\ nextId = Len(instances) + 1
    /\ overflow_checks \in BOOLEAN
    /\ pre = instances
    /\ \E e \in ErrorValues : last = [Blank("error", None) EXCEPT !.res = e]
    /\ prev = Brief(Blank("new", None))

(* e.unsupported(), lines 41-50: a method on &self *)
Unsupported ==
    /\ pc = "idle"
    /\ last.op = "error"
    /\ last' = [last EXCEPT !.op = "unsupported", !.flag = unsupported(last.res)]
    /\ pre' = instances
    /\ UNCHANGED <<instances, pc, disk, nextId, overflow_checks, prev>>

NextErr == Unsupported

SpecErr == InitErr /\ [][NextErr]_vars

----------------------------------------------------------------------------
(* Properties *)

Returned == pc = "idle"
Carries(v, name) == \E i \in 1..Len(v) : v[i].name = name
Ids(v) == {v[i].inst : i \in 1..Len(v)}
AllStages ==
    <<"deserialize", "program", "tempdir", "compile", "codegen", "write",
      "link", "load", "region", "new_instance", "push">>

(* C1: an instantiate call either succeeds, every stage having run, and the
   registry is the old registry with the one entry (name, new instance)
   appended at the end; or it returns a ScriptError and the registry is what
   it was before the call. While the call runs, and when it ends without
   returning, the registry is untouched as well. *)
C1_InstantiateAllOrNothing ==
    last.op = "instantiate" =>
        /\ (Returned /\ last.res = Ok) =>
              /\ last.stages = AllStages
              /\ last.new \notin Ids(pre)
              /\ instances = Append(pre, [name |-> last.name, inst |-> last.new])
        /\ (Returned /\ last.res # Ok) =>
              /\ last.res.kind \in ErrorKinds
              /\ instances = pre
        /\ ~Returned => instances = pre

C1_Witness ==
    /\ Returned
    /\ last.op = "instantiate"
    /\ last.res.kind = "InstantiateError"
    /\ prev.op = "instantiate"
    /\ prev.res = "Ok"
    /\ Len(instances) = 1

(* C2: a lookup with no name selects the last entry; a lookup with a name
   selects the first entry, in insertion order, whose stored name is that
   name, also when several entries carry it. Instantiate and register accept
   a name that is already carried and keep every entry. *)
C2_LookupOrder ==
    /\ \A name \in OptNames :
          LET r == instance_named(instances, name)
              m == instance_named_mut(instances, name)
          IN  /\ (name = None /\ Len(instances) > 0) =>
                    /\ r.ok /\ r.pos = Len(instances)
                    /\ m.ok /\ m.pos = Len(instances)
              /\ (name # None /\ Carries(instances, name)) =>
                    /\ r.ok /\ m.ok /\ m.pos = r.pos
                    /\ instances[r.pos].name = name
                    /\ \A j \in 1..(r.pos - 1) : instances[j].name # name
    /\ (Returned /\ last.op \in {"resolve", "run"} /\ last.res.kind # "MalformedScript") =>
          /\ last.target = pre[last.pos].inst
          /\ IF last.name = None
             THEN last.pos = Len(pre)
             ELSE /\ pre[last.pos].name = last.name
                  /\ \A j \in 1..(last.pos - 1) : pre[j].name # last.name
    /\ (Returned /\ last.op = "instantiate" /\ last.res = Ok) =>
          Len(instances) = Len(pre) + 1
    /\ (Returned /\ last.op = "register" /\ last.res = Ok) =>
          Len(instances) = Len(pre)

C2_Witness ==
    /\ Returned
    /\ last.op = "resolve"
    /\ last.name = Some("a")
    /\ Len(instances) = 2
    /\ instances[1].name = Some("a")
    /\ instances[2].name = Some("a")
    /\ last.pos = 1
    /\ last.target = instances[1].inst

(* C3: resolve, run and register called with a name that no entry carries,
   or with no name on an empty registry, return MalformedScript (no other
   kind, and not a panic), invoke nothing and leave the registry unchanged. *)
C3_UnknownNameIsMalformedScript ==
    (/\ last.op \in {"resolve", "run", "register"}
     /\ \/ last.name = None /\ pre = <<>>
        \/ last.name # None /\ ~Carries(pre, last.name))
    => /\ Returned
       /\ last.res.kind = "MalformedScript"
       /\ last.res.ctx = IF last.name = None
                         THEN "no defined instances"
                         ELSE "no instance named " \o last.name[1]
       /\ last.calls = <<>>
       /\ instances = pre

C3_Witness ==
    /\ Returned
    /\ last.op = "run"
    /\ last.name = Some("b")
    /\ Len(pre) = 2
    /\ ~Carries(pre, Some("b"))
    /\ last.res = Err("MalformedScript", "no instance named b")

(* The entry that resolve(Some(alias)) selects in the present registry is the
   instance `inst` *)
ResolvesTo(alias, inst) ==
    LET r == instance_named(instances, Some(alias))
    IN  r.ok /\ instances[r.pos].inst = inst

RegisterSucceeded == Returned /\ last.op = "register" /\ last.res = Ok

(* C4, as claimed: after register(n, A) succeeds on the entry e, resolving
   Some(A) gives the instance of e. *)
C4_AliasResolvesToRegistered ==
    RegisterSucceeded => ResolvesTo(last.alias, last.target)

(* C4, amended: after register(n, A) succeeds on the entry e, resolving
   Some(A) gives the first entry, in registry order, that carries A: the
   instance of e when no entry before e carried A already, and otherwise the
   earliest such entry, which is not e. *)
C4_AliasResolvesToFirstCarrier ==
    RegisterSucceeded =>
        /\ last.target = pre[last.pos].inst
        /\ instances[last.pos].inst = last.target
        /\ instances[last.pos].name = Some(last.alias)
        /\ (\A j \in 1..(last.pos - 1) : pre[j].name # Some(last.alias))
              => ResolvesTo(last.alias, last.target)
        /\ \A j \in 1..(last.pos - 1) :
              (/\ pre[j].name = Some(last.alias)
               /\ \A k \in 1..(j - 1) : pre[k].name # Some(last.alias))
              => /\ ResolvesTo(last.alias, pre[j].inst)
                 /\ pre[j].inst # last.target

C4_Witness ==
    /\ RegisterSucceeded
    /\ last.name = Some("a")
    /\ last.alias = "b"
    /\ last.pos = 1
    /\ Len(instances) = 2
    /\ instances[2].name = Some("a")
    /\ ResolvesTo("b", instances[1].inst)

(* C5: delete_last on a registry of n >= 1 entries returns and leaves the
   first n-1 entries, unchanged and in order; when n >= 2 a lookup with no
   name then selects the entry that was second-to-last. *)
C5_DeleteLastRemovesLast ==
    (last.op = "delete_last" /\ Len(pre) >= 1) =>
        /\ Returned
        /\ last.res = Ok
        /\ Len(instances) = Len(pre) - 1
        /\ instances = SubSeq(pre, 1, Len(pre) - 1)
        /\ Len(pre) >= 2 =>
              LET r == instance_named(instances, None)
              IN  /\ r.ok
                  /\ r.pos = Len(pre) - 1
                  /\ instances[r.pos] = pre[Len(pre) - 1]

C5_Witness ==
    /\ Returned
    /\ last.op = "delete_last"
    /\ Len(pre) = 2
    /\ Len(instances) = 1
    /\ pre[1].inst # pre[2].inst
    /\ instances[1] = pre[1]

(* C6: delete_last on an empty registry panics: it does not return, it gives
   no ScriptError and it is no silent no-op, whether `len - 1` is
   overflow-checked (the subtraction panics) or wraps modulo 2^64 (the
   removal index 2^64 - 1 is out of bounds). *)
C6_DeleteLastOnEmptyIsFatal ==
    (last.op = "delete_last" /\ Len(pre) = 0) =>
        /\ pc = "panicked"
        /\ last.res.kind = "panic"
        /\ last.res.kind \notin ErrorKinds \cup {"Ok"}
        /\ last.res.ctx = IF overflow_checks
                          THEN "attempt to subtract with overflow"
                          ELSE "removal index out of bounds"
        /\ instances = <<>>

C6_Witness ==
    /\ ~overflow_checks
    /\ pc = "panicked"
    /\ last.op = "delete_last"
    /\ pre = <<>>
    /\ last.res = Panic("removal index out of bounds")
    /\ wrapping_sub1(ToUsize(0)) = [i \in Limbs |-> LimbBase - 1]

(* C7: run(None, f, args) right after a successful instantiate(M, None)
   invokes f once, against the instance that instantiate created, which is
   the last entry and is none of the earlier entries. *)
C7_RunAfterInstantiateUsesNewInstance ==
    (/\ Returned
     /\ last.op = "run" /\ last.name = None
     /\ prev.op = "instantiate" /\ prev.name = None /\ prev.res = "Ok")
    => /\ last.calls = <<prev.new>>
       /\ last.res.kind \in {"Ok", "RuntimeError"}
       /\ instances[Len(instances)].inst = prev.new
       /\ \A i \in 1..(Len(instances) - 1) : instances[i].inst # prev.new

C7_Witness ==
    /\ Returned
    /\ last.op = "run" /\ last.name = None
    /\ prev.op = "instantiate" /\ prev.name = None /\ prev.res = "Ok"
    /\ Len(instances) = 2
    /\ last.calls = <<instances[2].inst>>

(* C8: whenever no directive is running (every instantiate call has returned,
   with Ok or with the error of any stage), the temporary directory of the
   call and the files in it do not exist. *)
C8_NoTempArtifactBetweenDirectives ==
    Returned => disk = {}

C8_Witness ==
    /\ Returned
    /\ last.op = "instantiate"
    /\ last.stage = "link"
    /\ last.res = Err("CodegenError", "ld")
    /\ disk = {}

InstantiateFailedWith(cause) ==
    Returned /\ last.op = "instantiate" /\ last.cause = cause

(* C9, as claimed: a validation-kind failure reported by program construction
   or by compile is returned as ValidationError. *)
C9_ValidationAtAnyStage ==
    (InstantiateFailedWith("Validation") /\ last.stage \in {"program", "compile"})
    => last.res.kind = "ValidationError"

(* C9, amended: a validation-kind failure reported by program construction is
   returned as ValidationError, never as ProgramError or CompileError; one
   reported by compile is returned as CompileError. *)
C9_ValidationByStage ==
    InstantiateFailedWith("Validation") =>
        /\ last.stage = "program" => last.res = Err("ValidationError", "Validation")
        /\ last.stage = "compile" => last.res = Err("CompileError", "Validation")

C9_Witness ==
    /\ InstantiateFailedWith("Validation")
    /\ last.stage = "program"
    /\ last.res.kind = "ValidationError"
    /\ last.stages = <<"deserialize", "program">>

(* C10, as claimed: an unsupported-feature failure reported by program
   construction, compile or codegen is returned as a ProgramError or a
   CompileError for which unsupported() is true. *)
C10_UnsupportedAtAnyStage ==
    (InstantiateFailedWith("Unsupported")
        /\ last.stage \in {"program", "compile", "codegen"})
    => /\ last.res.kind \in {"ProgramError", "CompileError"}
       /\ unsupported(last.res)

(* C10, amended: an unsupported-feature failure reported by program
   construction is returned as ProgramError and one reported by compile as
   CompileError, and unsupported() is true of both; one reported by codegen is
   returned as CodegenError, of which unsupported() is false. *)
C10_UnsupportedByStage ==
    InstantiateFailedWith("Unsupported") =>
        /\ last.stage = "program" =>
              last.res.kind = "ProgramError" /\ unsupported(last.res)
        /\ last.stage = "compile" =>
              last.res.kind = "CompileError" /\ unsupported(last.res)
        /\ last.stage = "codegen" =>
              last.res.kind = "CodegenError" /\ ~unsupported(last.res)

C10_Witness ==
    /\ InstantiateFailedWith("Unsupported")
    /\ last.stage = "compile"
    /\ last.res = Err("CompileError", "Unsupported")
    /\ unsupported(last.res)

(* C11: unsupported() is true exactly of a ProgramError or CompileError whose
   cause is the unsupported-feature kind; it is false of a ProgramError or
   CompileError with another cause and of the other eight kinds; applying it
   changes neither the error nor the registry. *)
C11_UnsupportedExactly ==
    last.op = "unsupported" =>
        /\ last.res \in ErrorValues
        /\ last.flag = (/\ last.res.kind \in {"ProgramError", "CompileError"}
                        /\ last.res.ctx = "Unsupported")
        /\ (last.res.kind \notin {"ProgramError", "CompileError"}) => ~last.flag
        /\ (last.res.ctx # "Unsupported") => ~last.flag
        /\ instances = pre
        /\ instances \in Registries
        /\ disk = {}
        /\ pc = "idle"

C11_Witness ==
    /\ last.op = "unsupported"
    /\ last.res = Err("CompileError", "Validation")
    /\ ~last.flag
    /\ Len(instances) = 2

(* C12: every failure of the linker subprocess, a non-zero exit status as
   well as a failure to launch it, is returned as CodegenError. *)
C12_LinkerFailureIsCodegenError ==
    (last.op = "instantiate" /\ last.stage = "link") =>
        /\ Returned
        /\ last.cause \in {"ld", "io"}
        /\ last.res.kind = "CodegenError"

(* C13: every failure of the last stage, of creating the region as well as
   of instantiating the module in it, is returned as InstantiateError, and
   instantiate never ends in a panic. *)
C13_InstantiateStageNeverFatal ==
    last.op = "instantiate" =>
        /\ pc # "panicked"
        /\ last.stage \in {"region", "new_instance"} =>
              Returned /\ last.res.kind = "InstantiateError"

(* C14: run with a name that resolves invokes the export once, on the
   resolved instance, and a sandbox fault is returned as RuntimeError; with a
   name that does not resolve nothing is invoked and MalformedScript is
   returned. *)
C14_RunInvokesExactlyOnce ==
    last.op = "run" =>
        LET r == instance_named_mut(pre, last.name) IN
        /\ Returned
        /\ r.ok =>
              /\ Len(last.calls) = 1
              /\ last.calls[1] = pre[r.pos].inst
              /\ last.cause = "fault" => last.res.kind = "RuntimeError"
              /\ last.cause # "fault" => last.res = Ok
        /\ ~r.ok =>
              /\ last.calls = <<>>
              /\ last.res.kind = "MalformedScript"

C14_Witness ==
    /\ Returned
    /\ last.op = "run"
    /\ last.name = Some("a")
    /\ last.cause = "fault"
    /\ last.res.kind = "RuntimeError"
    /\ Len(pre) = 2
    /\ last.calls = <<pre[1].inst>>

(* The registry left by instantiate(M1, None); instantiate(M2, Some(n)):
   M1 unnamed at position 1, M2 named at position 2 *)
Superseded(v) ==
    /\ Len(v) = 2
    /\ v[1].name = None
    /\ v[2].name # None
    /\ v[1].inst # v[2].inst

RegisterNoNameOnSuperseded ==
    Returned /\ last.op = "register" /\ last.name = None /\ Superseded(pre)

(* C15, as claimed: after instantiate(M1, None); instantiate(M2, Some(n)),
   register(None, A) registers M1, so that resolving Some(A) gives the
   instance of M1 and not that of M2. *)
C15_RegisterReachesSuperseded ==
    RegisterNoNameOnSuperseded => ResolvesTo(last.alias, pre[1].inst)

(* C15, amended: after instantiate(M1, None); instantiate(M2, Some(n)),
   run(None, ..) is invoked against M2; register(None, A) renames the last
   entry, M2, so that resolving Some(A) gives the instance of M2 and not that
   of M1; no lookup selects M1 while M2 follows it. *)
C15_RegisterRenamesLast ==
    /\ (Returned /\ last.op = "run" /\ last.name = None /\ Superseded(pre)) =>
          last.calls = <<pre[2].inst>>
    /\ RegisterNoNameOnSuperseded =>
          /\ last.res = Ok
          /\ instances = <<pre[1], Entry(Some(last.alias), pre[2].inst)>>
          /\ ResolvesTo(last.alias, pre[2].inst)
          /\ ~ResolvesTo(last.alias, pre[1].inst)
    /\ Superseded(instances) =>
          \A name \in OptNames :
              /\ instance_named(instances, name).pos # 1
              /\ instance_named_mut(instances, name).pos # 1

C15_Witness ==
    /\ RegisterNoNameOnSuperseded
    /\ pre = <<Entry(None, 1), Entry(Some("a"), 2)>>
    /\ last.alias = "b"
    /\ instances = <<Entry(None, 1), Entry(Some("b"), 2)>>
    /\ ResolvesTo("b", 2)

(* C16: register overwrites the stored name: after register(Some(n), A)
   succeeds with A # n, the renamed entry carries A and no longer n, and
   resolving Some(n) gives another entry that still carries n, or fails with
   MalformedScript. *)
C16_RegisterOverwritesName ==
    (RegisterSucceeded /\ last.name # None /\ last.name # Some(last.alias)) =>
        LET r == instance_named(instances, last.name) IN
        /\ pre[last.pos].name = last.name
        /\ instances[last.pos].name = Some(last.alias)
        /\ instances[last.pos].name # last.name
        /\ instances[last.pos].inst = last.target
        /\ r.ok =>
              /\ r.pos # last.pos
              /\ instances[r.pos].inst # last.target
              /\ instances[r.pos].name = last.name
              /\ pre[r.pos].name = last.name
        /\ ~r.ok => r.err = Err("MalformedScript", "no instance named " \o last.name[1])
        /\ r.ok = (\E i \in 1..Len(pre) : i # last.pos /\ pre[i].name = last.name)

C16_Witness ==
    /\ RegisterSucceeded
    /\ last.name = Some("a")
    /\ last.alias = "b"
    /\ Len(instances) = 1
    /\ instances[1].name = Some("b")
    /\ ~instance_named(instances, Some("a")).ok

SameButNames(v, w) ==
    /\ Len(v) = Len(w)
    /\ \A i \in 1..Len(v) : v[i].inst = w[i].inst

(* C17: run and resolve, whatever they return, leave the registry as it was;
   a failing register leaves it as it was; a successful register changes the
   stored name of the resolved entry only: the length, the order, every
   instance and every other name stay. *)
C17_RegistryFrame ==
    /\ last.op \in {"run", "resolve"} => Returned /\ instances = pre
    /\ last.op = "register" =>
          /\ Returned
          /\ last.res # Ok =>
                /\ last.res.kind = "MalformedScript"
                /\ instances = pre
          /\ last.res = Ok =>
                /\ last.pos \in 1..Len(pre)
                /\ SameButNames(instances, pre)
                /\ instances[last.pos].name = Some(last.alias)
                /\ \A i \in 1..Len(pre) :
                      i # last.pos => instances[i] = pre[i]

C17_Witness ==
    /\ RegisterSucceeded
    /\ last.name = Some("a")
    /\ last.alias = "b"
    /\ pre = <<Entry(Some("a"), 1), Entry(Some("a"), 2)>>
    /\ instances = <<Entry(Some("b"), 1), Entry(Some("a"), 2)>>

IsPrefix(p, q) == Len(p) <= Len(q) /\ \A i \in 1..Len(p) : p[i] = q[i]

(* The stages of an instantiate call ran in the order of the function body,
   each once, and none after the one that failed *)
StagesInOrder ==
    last.op = "instantiate" =>
        /\ IsPrefix(last.stages, AllStages)
        /\ last.stage # "" =>
              /\ last.stages # <<>>
              /\ last.stages[Len(last.stages)] = last.stage

(* The error kind each stage's failure is returned as; creating the temporary
   directory, which is no stage of its own, fails with IoError *)
StageErrorKinds(stage) ==
    CASE stage = "deserialize" -> {"DeserializeError"}
      [] stage = "program" -> {"ValidationError", "ProgramError"}
      [] stage = "tempdir" -> {"IoError"}
      [] stage = "compile" -> {"CompileError"}
      [] stage \in {"codegen", "write"} -> {"CodegenError"}
      [] stage = "link" -> {"CodegenError"}
      [] stage = "load" -> {"LoadError"}
      [] stage \in {"region", "new_instance"} -> {"InstantiateError"}
      [] OTHER -> {}

(* C18: within one instantiate call the stages run in the fixed order, each
   at most once and none after a failure, and the first stage that fails
   determines the error kind returned: DeserializeError; ValidationError or
   ProgramError; CompileError; CodegenError; CodegenError (link); LoadError;
   InstantiateError. *)
C18_StageOrderAndErrorKind ==
    /\ StagesInOrder
    /\ (last.op = "instantiate" /\ last.stage # "") =>
          /\ Returned
          /\ last.res.kind \in StageErrorKinds(last.stage)

(* The entry at position i has no stored name and is not the last entry *)
Hidden(v, i) == i \in 1..(Len(v) - 1) /\ v[i].name = None

(* The entry of v that holds the instance inst is the last one or has a name *)
Addressable(v, inst) ==
    \E i \in 1..Len(v) : v[i].inst = inst /\ (i = Len(v) \/ v[i].name # None)

(* C19: a lookup by name never selects an entry without a stored name; an
   entry without a name that is not the last one is selected by no resolve,
   run or register, whatever the argument; it can be selected again only
   once delete_last has made it the last entry. *)
C19_UnnamedNonLastIsUnreachable ==
    /\ \A name \in OptNames :
          LET r == instance_named(instances, name)
              m == instance_named_mut(instances, name)
          IN  /\ (name # None /\ r.ok) => instances[r.pos].name # None
              /\ (name # None /\ m.ok) => instances[m.pos].name # None
              /\ r.ok => ~Hidden(instances, r.pos)
              /\ m.ok => ~Hidden(instances, m.pos)
    /\ (last.op \in {"resolve", "run", "register"} /\ last.pos # 0) =>
          /\ ~Hidden(pre, last.pos)
          /\ last.name # None => pre[last.pos].name # None
          /\ \A i \in 1..Len(pre) : Hidden(pre, i) => pre[i].inst \notin
                {last.target} \cup {last.calls[k] : k \in 1..Len(last.calls)}
    /\ \A i \in 1..Len(pre) :
          (Hidden(pre, i) /\ Addressable(instances, pre[i].inst))
              => /\ last.op = "delete_last"
                 /\ i = Len(instances)

C19_Witness ==
    /\ Returned
    /\ last.op = "run"
    /\ last.name = Some("a")
    /\ last.res.kind = "MalformedScript"
    /\ pre = <<Entry(None, 1), Entry(Some("b"), 2)>>
    /\ Hidden(instances, 1)
    /\ prev.op = "register"

(* C20: the read-only lookup and the mutable lookup agree: for every optional
   name both select the entry at the same position or both fail with the
   same MalformedScript message; a resolve and a run or register with the
   same arguments on the same registry report the same. *)
C20_LookupsAgree ==
    /\ \A name \in OptNames :
          LET r == instance_named(instances, name)
              m == instance_named_mut(instances, name)
          IN  /\ r.ok = m.ok
              /\ r.pos = m.pos
              /\ r.err = m.err
              /\ ~r.ok => r.err.kind = "MalformedScript"
    /\ (Returned /\ last.op = "resolve") =>
          LET m == instance_named_mut(pre, last.name)
          IN  /\ last.pos = m.pos
              /\ m.ok => last.res = Ok
              /\ ~m.ok => last.res = m.err
    /\ (Returned /\ last.op \in {"run", "register"}) =>
          LET r == instance_named(pre, last.name)
          IN  /\ last.pos = r.pos
              /\ ~r.ok => last.res = r.err

C20_Witness ==
    /\ Returned
    /\ last.op = "run"
    /\ last.name = Some("a")
    /\ prev.op = "resolve"
    /\ prev.name = Some("a")
    /\ prev.res = "Ok"
    /\ instances = <<Entry(Some("a"), 1), Entry(Some("a"), 2)>>
    /\ last.pos = 1
    /\ instance_named(instances, Some("a")).pos = 1

====
